---- MODULE Spec2Model ----
(***************************************************************************)
(* A model of jsilll/tcp-epoll-server: the worker pool                     *)
(* (src/include/tcp/thread_pool.h), the epoll server that reads on the     *)
(* reactor thread (src/include/tcp/server.h) and the earlier server that   *)
(* accepts and reads on the workers (src/server.h).                        *)
(*                                                                         *)
(* Every system call is one atomic step of the thread that issues it; a    *)
(* critical section of task_mutex_ is one atomic step.                     *)
(***************************************************************************)
EXTENDS Naturals, Integers, Sequences, FiniteSets, TLC

\* ------------------------------------------------------------------ bounds
\* Worker threads a pool may be built with (ThreadPool(num), num an input).
MaxThreads == 2
\* Tasks the owner of a bare pool pushes before it stops the pool.
MaxTasks == 3
\* Client connections that are ever attempted.
MaxConns == 2
\* Of these, the clients that take part where clients send data (Spec and
\* Spec_v1); every client takes part where clients only connect and
\* disconnect (Spec_v1_silent).
MaxTalkers == 1
\* Data chunks a client sends on one connection.
MaxSends == 2
\* Descriptors the process may hold open on accepted sockets (RLIMIT_NOFILE
\* less the descriptors in use): accept fails with EMFILE beyond it.
MaxFds == 2

\* _buf_size: the length of the buffer Run reads into.
BufSize == 4
\* Byte values (0 is the terminator strlen looks for).
MaxByte == 2
\* Bytes of memory past the end of in_buf that a read beyond it may see.
MaxOverread == 2

Workers == 1..MaxThreads
TaskIds == 1..MaxTasks
Conns == 1..MaxConns
\* Descriptor numbers the kernel hands out to accepted sockets (lowest free).
FDs == 1..MaxFds
\* sockaddr_in values: a peer is named by its connection; 0 is the zeroed
\* sockaddr_in{}.
Addrs == 0..MaxConns

VARIABLES
    \* ---- ThreadPool (thread_pool.h)
    num,        \* the constructor's argument: how many workers exist
    tasks_,     \* std::queue<task_type> tasks_, front first
    wpc,        \* per worker: where it is in its loop, or in the task it runs
    wcur,       \* per worker: the task it dequeued (its locals with it)
    \* ---- the owner of a bare pool (pushes, then Stop)
    opc,        \* where the owner is
    pushed,     \* how many tasks it has pushed
    joined,     \* Stop: how many workers_ it has joined
    ran,        \* per pushed task: how many times a worker ran it
    \* ---- what a worker's running task holds (HandleNewConnection, HandleRead)
    wloc,       \* per worker: client_addr, keep_alive, whether out_buf is filled
    did,        \* per worker: what its task has done so far (history)
    \* ---- the kernel and the clients
    backlog,    \* completed connections not yet accepted, oldest first
    peer,       \* per connection: the client's end, as the server's socket has it
    nsent,      \* per connection: chunks the client has sent
    rcvq,       \* per connection: chunks received and not yet read
    fdtab,      \* per descriptor number: the connection it is open on, or 0
    interest,   \* the epoll instance: the connection descriptors registered
    \* ---- Server::Run (the reactor thread)
    rpc,        \* where Run is
    events,     \* the events of this epoll_wait still to be processed
    rcur,       \* the event whose accept or read returned 0 or -1
    err,        \* the Error that left Run or the constructor (its kind)
    failed,     \* the setup step whose failure raised it, if one did (history)
    \* ---- the handler, and history
    cb,         \* per callback and address: how many times it was called
    life,       \* per connection: none, registered, closed, dropped
    nclose,     \* per connection: close() calls issued on its descriptor
    uac,        \* connections whose descriptor was used after its close
    \* ---- EchoHandler::OnRead (src/app/handler.h), called on its own
    echo,       \* the call: where it is, in_buf, out_buf, the value returned
    \* ---- ThreadPool with every statement of a critical section a step
    mx          \* task_mutex_'s holder, each thread's position, the queue

ownerVars == <<opc, pushed, joined, ran>>
envVars == <<backlog, peer, nsent, rcvq>>
fdVars == <<fdtab, interest, life, nclose>>
reactorVars == <<rpc, events, rcur, err, failed>>
netVars == <<backlog, peer, nsent, rcvq, fdtab, interest, rpc, events, rcur, err, failed, cb,
             life, nclose, uac>>
srvVars == <<wloc, did, backlog, peer, nsent, rcvq, fdtab, interest, rpc, events,
             rcur, err, failed, cb, life, nclose, uac>>
vars == <<num, echo, mx, tasks_, wpc, wcur, opc, pushed, joined, ran, wloc, did, backlog,
          peer, nsent, rcvq, fdtab, interest, rpc, events, rcur, err, failed, cb, life,
          nclose, uac>>

\* ------------------------------------------------------------------ tasks
\* A task_type value.  kind "stop" is the empty std::function that
\* push_stop_task enqueues; the other kinds are the closures that are pushed.
\* fd, addr: what the closure captured.  conn: the connection the closure was
\* made for (history only: no code reads it).  id: the task of a bare pool.
Task(kind, fd, addr, conn, id) ==
    [kind |-> kind, fd |-> fd, addr |-> addr, conn |-> conn, id |-> id]

\* The locals of a task function before it has set them.
NoLocals == [addr |-> 0, keep |-> TRUE, out |-> FALSE]

StopTask == Task("stop", 0, 0, 0, 0)
NoTask == Task("none", 0, 0, 0, 0)
Job(id) == Task("job", 0, 0, 0, id)

\* task_cond_.notify_one(): one of the workers blocked in task_cond_.wait is
\* made runnable (it must take the mutex and test the predicate again); with
\* no waiter the call does nothing.  The set of outcomes.
notify_one(p) ==
    IF \E w \in Workers : p[w] = "blocked"
    THEN {[p EXCEPT ![w] = "lock"] : w \in {x \in Workers : p[x] = "blocked"}}
    ELSE {p}

\* A pool whose queue is a stack: the new task goes to the front.
emplace_front(q, t) == <<t>> \o q

\* tasks_.emplace(...): at the back of the queue.
emplace(q, t) == Append(q, t)

\* ------------------------------------------------------------ worker loop
\* lines 28-32, queue empty: task_cond_.wait releases the mutex and blocks.
WorkerWait(w) ==
    /\ wpc[w] = "lock"
    /\ tasks_ = <<>>
    /\ wpc' = [wpc EXCEPT ![w] = "blocked"]
    /\ UNCHANGED <<num, echo, mx, tasks_, wcur, opc, pushed, joined, ran, srvVars>>

\* A waiter may wake with no notification; it tests the predicate again.
SpuriousWake(w) ==
    /\ wpc[w] = "blocked"
    /\ wpc' = [wpc EXCEPT ![w] = "lock"]
    /\ UNCHANGED <<num, echo, mx, tasks_, wcur, opc, pushed, joined, ran, srvVars>>

\* Where a worker goes with the task it dequeued: an empty task sends it to
\* the relay (line 33), any other one is called (line 37).
AfterDequeue(t) == IF t.kind = "stop" THEN "relay" ELSE "call"

\* The worker loop as it would be under single-flight: the front task is not
\* taken while another worker is running a task on the same descriptor.
WorkerDequeueSingleFlight(w) ==
    /\ wpc[w] = "lock"
    /\ tasks_ # <<>>
    /\ \A v \in Workers \ {w} :
          \/ wpc[v] \in {"absent", "lock", "blocked", "relay", "exited"}
          \/ wcur[v].fd = 0
          \/ wcur[v].fd # Head(tasks_).fd
    /\ wcur' = [wcur EXCEPT ![w] = Head(tasks_)]
    /\ tasks_' = Tail(tasks_)
    /\ wpc' = [wpc EXCEPT ![w] = AfterDequeue(Head(tasks_))]
    /\ UNCHANGED <<num, echo, mx, opc, pushed, joined, ran, srvVars>>

\* A worker loop that takes the task at the back of the queue.
WorkerDequeueBack(w) ==
    /\ wpc[w] = "lock"
    /\ tasks_ # <<>>
    /\ wcur' = [wcur EXCEPT ![w] = tasks_[Len(tasks_)]]
    /\ tasks_' = SubSeq(tasks_, 1, Len(tasks_) - 1)
    /\ wpc' = [wpc EXCEPT ![w] = AfterDequeue(tasks_[Len(tasks_)])]
    /\ UNCHANGED <<num, echo, mx, opc, pushed, joined, ran, srvVars>>

\* lines 28-32, queue not empty: the front task moves to the worker.
WorkerDequeue(w) ==
    /\ wpc[w] = "lock"
    /\ tasks_ # <<>>
    /\ wcur' = [wcur EXCEPT ![w] = Head(tasks_)]
    /\ tasks_' = Tail(tasks_)
    /\ wpc' = [wpc EXCEPT ![w] = AfterDequeue(Head(tasks_))]
    /\ UNCHANGED <<num, echo, mx, opc, pushed, joined, ran, srvVars>>

\* push_stop_task (lines 78-82): under the mutex, a fresh empty task at the
\* back and one notification.  The queue after it.
push_stop_task(q) == emplace(q, StopTask)

\* A worker that dequeued the empty task and returns without enqueueing
\* another one.
WorkerExitsSilently(w) ==
    /\ wpc[w] = "relay"
    /\ wpc' = [wpc EXCEPT ![w] = "exited"]
    /\ wcur' = [wcur EXCEPT ![w] = NoTask]
    /\ UNCHANGED <<num, echo, mx, tasks_, opc, pushed, joined, ran, srvVars>>

\* lines 33-36: the worker that dequeued the empty task enqueues another one
\* and returns from its thread function.
WorkerRelay(w) ==
    /\ wpc[w] = "relay"
    /\ tasks_' = push_stop_task(tasks_)
    /\ wpc' \in notify_one([wpc EXCEPT ![w] = "exited"])
    /\ wcur' = [wcur EXCEPT ![w] = NoTask]
    /\ UNCHANGED <<num, echo, mx, opc, pushed, joined, ran, srvVars>>

\* The worker's loop around the task it calls (lines 25-38).
WorkerStep(w) ==
    \/ WorkerWait(w)
    \/ SpuriousWake(w)
    \/ WorkerDequeue(w)
    \/ WorkerRelay(w)

\* line 37 for a task of a bare pool: task() runs to its end (a task that
\* throws ends inside its packaged_task) and the worker loops.
WorkerRunJob(w) ==
    /\ wpc[w] = "call"
    /\ wcur[w].kind = "job"
    /\ ran' = [ran EXCEPT ![wcur[w].id] = @ + 1]
    /\ wpc' = [wpc EXCEPT ![w] = "lock"]
    /\ wcur' = [wcur EXCEPT ![w] = NoTask]
    /\ UNCHANGED <<num, echo, mx, tasks_, opc, pushed, joined, srvVars>>

\* ------------------------------------------------------------------ owner
\* Push, lines 68-71: the closure goes to the back of the queue under the
\* mutex.
OwnerPush ==
    /\ opc = "idle"
    /\ pushed < MaxTasks
    /\ tasks_' = emplace(tasks_, Job(pushed + 1))
    /\ pushed' = pushed + 1
    /\ opc' = "notify"
    /\ UNCHANGED <<num, echo, mx, wpc, wcur, joined, ran, srvVars>>

\* A Push that returns without notifying anybody.
OwnerForgetsNotify ==
    /\ opc = "notify"
    /\ opc' = "idle"
    /\ UNCHANGED <<num, echo, mx, tasks_, wpc, wcur, pushed, joined, ran, srvVars>>

\* Push, line 72: notify_one after the mutex is released; Push returns.
OwnerNotify ==
    /\ opc = "notify"
    /\ wpc' \in notify_one(wpc)
    /\ opc' = "idle"
    /\ UNCHANGED <<num, echo, mx, tasks_, wcur, pushed, joined, ran, srvVars>>

\* Stop, line 48: push_stop_task().
StopPush ==
    /\ opc = "idle"
    /\ tasks_' = push_stop_task(tasks_)
    /\ wpc' \in notify_one(wpc)
    /\ opc' = "join"
    /\ joined' = 0
    /\ UNCHANGED <<num, echo, mx, wcur, pushed, ran, srvVars>>

\* Whether workers_[joined] has returned, so that join() on it returns.
JoinReturns == wpc[joined + 1] = "exited"

\* Stop, lines 49-53: join the next thread of workers_; blocks until that
\* thread has returned.
StopJoin ==
    /\ opc = "join"
    /\ joined < num
    /\ JoinReturns
    /\ joined' = joined + 1
    /\ UNCHANGED <<num, echo, mx, tasks_, wpc, wcur, opc, pushed, ran, srvVars>>

\* A Stop that forgets the swap.
NotDrained(q) == q

\* Stop, lines 55-57: the queue after the swap with an empty one.
Drained(q) == <<>>

\* Stop, lines 56-58: after the last join, clear the queue and return.
StopDrain ==
    /\ opc = "join"
    /\ joined = num
    /\ tasks_' = Drained(tasks_)
    /\ opc' = "stopped"
    /\ UNCHANGED <<num, echo, mx, wpc, wcur, pushed, joined, ran, srvVars>>

\* ------------------------------------------------- the kernel and clients
\* _server_fd, the listening socket, as the data.fd of an epoll event.
ServerFd == 0

CbKinds == {"OnNew", "OnRead", "OnClose", "OnErrorRead", "OnErrorWrite"}

\* The handler was called: callback k with address a.
Called(k, a) == [cb EXCEPT ![k][a] = @ + 1]

\* The pool is not being followed statement by statement.
NoMx == [holder |-> "none", wk |-> "none", cur |-> "none", pu |-> "none",
         st |-> "none", q |-> <<>>, n |-> 0]

\* EchoHandler::OnRead is not being called on its own.
NoEcho == [pc |-> "none", in_buf |-> <<>>, out_buf |-> <<>>, keep |-> TRUE]

\* No connection yet, nothing registered, Run about to enter its loop.
InitNet ==
    /\ echo = NoEcho
    /\ mx = NoMx
    /\ wloc = [w \in Workers |-> NoLocals]
    /\ did = [w \in Workers |-> {}]
    /\ backlog = <<>>
    /\ peer = [c \in Conns |-> "none"]
    /\ nsent = [c \in Conns |-> 0]
    /\ rcvq = [c \in Conns |-> 0]
    /\ fdtab = [fd \in FDs |-> 0]
    /\ interest = {}
    /\ rpc = "wait"
    /\ events = <<>>
    /\ rcur = [fd |-> 0, n |-> 0, conn |-> 0]
    /\ err = "none"
    /\ failed = "none"
    /\ cb = [k \in CbKinds |-> [a \in Addrs |-> 0]]
    /\ life = [c \in Conns |-> "none"]
    /\ nclose = [c \in Conns |-> 0]
    /\ uac = {}

\* The server still holds a descriptor of connection c, or may yet get one.
ServerSide(c) == life[c] \in {"none", "registered"}

\* A client completes a connection; it waits in the listen backlog.
ClientConnect(c) ==
    /\ peer[c] = "none"
    /\ IF c = 1 THEN TRUE ELSE peer[c - 1] # "none"
    /\ peer' = [peer EXCEPT ![c] = "open"]
    /\ backlog' = Append(backlog, c)
    /\ UNCHANGED <<num, echo, mx, tasks_, wpc, wcur, ownerVars, wloc, did, nsent, rcvq,
                   fdtab, interest, rpc, events, rcur, err, failed, cb, life, nclose, uac>>

\* A client sends a chunk (also before the server has accepted it).
ClientSend(c) ==
    /\ peer[c] = "open"
    /\ ServerSide(c)
    /\ nsent[c] < MaxSends
    /\ nsent' = [nsent EXCEPT ![c] = @ + 1]
    /\ rcvq' = [rcvq EXCEPT ![c] = @ + 1]
    /\ UNCHANGED <<num, echo, mx, tasks_, wpc, wcur, ownerVars, wloc, did, backlog, peer,
                   fdtab, interest, rpc, events, rcur, err, failed, cb, life, nclose, uac>>

\* A client closes its end (FIN), or aborts the connection (RST): "rst" is a
\* reset the socket has still to report (ECONNRESET pending).  A client that
\* has sent its FIN may reset the connection too (it answers so to whatever
\* arrives once it is closed): the socket is then "pipe", as it also is once
\* a pending reset has been reported.
ClientClose(c) ==
    /\ peer[c] \in {"open", "fin"}
    /\ ServerSide(c)
    /\ \E how \in (IF peer[c] = "open" THEN {"fin", "rst"} ELSE {"pipe"}) :
          peer' = [peer EXCEPT ![c] = how]
    /\ UNCHANGED <<num, echo, mx, tasks_, wpc, wcur, ownerVars, wloc, did, backlog, nsent,
                   rcvq, fdtab, interest, rpc, events, rcur, err, failed, cb, life, nclose,
                   uac>>

\* An epoll_event: data.fd, whether events has EPOLLHUP, and (history) the
\* connection the descriptor was open on when epoll_wait reported it.
Event(fd, hup, conn) == [fd |-> fd, hup |-> hup, conn |-> conn]

\* A registered connection descriptor is readable (EPOLLIN, level-triggered)
\* while unread data, a FIN or a reset is pending.
Readable(fd) ==
    /\ fd \in interest
    /\ fdtab[fd] # 0
    /\ \/ rcvq[fdtab[fd]] > 0
       \/ peer[fdtab[fd]] \in {"fin", "rst", "pipe"}

\* What epoll_wait has to report: the listening socket while the backlog is
\* not empty, and every readable connection; a reset connection with EPOLLHUP.
ReadyEvents ==
    (IF backlog # <<>> THEN {Event(ServerFd, FALSE, 0)} ELSE {})
    \cup {Event(fd, peer[fdtab[fd]] \in {"rst", "pipe"}, fdtab[fd]) :
            fd \in {g \in FDs : Readable(g)}}

RECURSIVE Perms(_)
\* The sequences that list every element of T once.
Perms(T) ==
    IF T = {} THEN {<<>>}
    ELSE UNION {{<<x>> \o p : p \in Perms(T \ {x})} : x \in T}

\* A descriptor number is free for accept to hand out.
HasFree == \E fd \in FDs : fdtab[fd] = 0

\* An accept that hands out the first descriptor number, open or not.
FirstNumber == CHOOSE fd \in FDs : \A g \in FDs : fd <= g

\* accept hands out the lowest descriptor number that is not open.
LowestFree == CHOOSE fd \in FDs : fdtab[fd] = 0 /\ \A g \in FDs : g < fd => fdtab[g] # 0

\* read(fd, ...): -1 on a descriptor that is not open, on a connection with
\* a reset to report, with nothing to read, or when the call is interrupted;
\* 1 for a chunk of data; 0 at end of file (after a FIN, or after a reset
\* that was reported).
ReadResults(fd) ==
    IF fdtab[fd] = 0 \/ peer[fdtab[fd]] = "rst" THEN {-1}
    ELSE {-1} \cup (IF peer[fdtab[fd]] = "pipe" THEN {0}
                    ELSE IF rcvq[fdtab[fd]] > 0 THEN {1}
                    ELSE IF peer[fdtab[fd]] = "fin" THEN {0}
                    ELSE {})

\* write(fd, ...) succeeds (TRUE) or returns -1 (FALSE): always -1 on a
\* descriptor that is not open and on a connection with a reset to report.
WriteResults(fd) ==
    IF fdtab[fd] = 0 \/ peer[fdtab[fd]] = "rst" THEN {FALSE}
    ELSE IF peer[fdtab[fd]] = "pipe" THEN {}
    ELSE BOOLEAN

\* The clients' ends after a read or write on fd returned -1: a pending reset
\* is reported by the first call that fails with it.
Reported(fd) ==
    IF fdtab[fd] # 0 /\ peer[fdtab[fd]] = "rst"
    THEN [peer EXCEPT ![fdtab[fd]] = "pipe"]
    ELSE peer

\* write(fd, ...) on a socket whose connection was reset fails with EPIPE once
\* the reset has been reported (or at once, when it followed the peer's FIN),
\* and the thread gets SIGPIPE: no handler is installed and the write is not
\* a send with MSG_NOSIGNAL, so the signal's default action ends the process.
Sigpipe(fd) == fdtab[fd] # 0 /\ peer[fdtab[fd]] = "pipe"

\* getpeername(fd, ...) succeeds: the descriptor is open and the connection
\* was not reset.
HasPeerName(fd) == fdtab[fd] # 0 /\ peer[fdtab[fd]] \notin {"rst", "pipe"}

\* A system call is issued on descriptor fd for connection c: the history of
\* uses of a descriptor that is no longer open on c.
Used(fd, c) == IF c # 0 /\ fdtab[fd] # c THEN uac \cup {c} ELSE uac

\* close(fd) issued for connection c.
Close(fd, c) ==
    /\ fdtab' = [fdtab EXCEPT ![fd] = 0]
    /\ interest' = interest \ {fd}
    /\ life' = IF fdtab[fd] # 0 THEN [life EXCEPT ![fdtab[fd]] = "closed"] ELSE life
    /\ nclose' = IF c # 0 THEN [nclose EXCEPT ![c] = @ + 1] ELSE nclose
    /\ uac' = Used(fd, c)

\* --------------------------------- src/include/tcp/server.h: Server::Run
\* GetClientAddress (lines 296-303): the zeroed address when getpeername
\* fails.
GetClientAddress(fd) == IF HasPeerName(fd) THEN fdtab[fd] ELSE 0

\* _max_events: the size of the events array (a constructor argument).
MaxEvents == 2

\* What one epoll_wait may return: as many of the ready events as fit the
\* array, in any order.
Batches ==
    LET k == IF Cardinality(ReadyEvents) < MaxEvents
             THEN Cardinality(ReadyEvents) ELSE MaxEvents
    IN UNION {Perms(T) : T \in {U \in SUBSET ReadyEvents : Cardinality(U) = k}}

\* After an event of the batch: the next one, or back to epoll_wait.
AfterEvent(rest) == IF rest = <<>> THEN "wait" ELSE "loop"

\* line 143: epoll_wait returns a batch of events.
EpollWait ==
    /\ rpc = "wait"
    /\ ReadyEvents # {}
    /\ events' \in Batches
    /\ rpc' = "loop"
    /\ UNCHANGED <<num, echo, mx, tasks_, wpc, wcur, ownerVars, wloc, did, envVars, fdVars,
                   rcur, err, failed, cb, uac>>

\* Run as it would be if it waited again after a failed epoll_wait.
EpollWaitRetries ==
    /\ rpc = "wait"
    /\ rpc' = "wait"
    /\ err' = "EpollWait"
    /\ UNCHANGED <<num, echo, mx, tasks_, wpc, wcur, ownerVars, wloc, did, envVars, fdVars,
                   events, rcur, failed, cb, uac>>

\* lines 145-147: epoll_wait returns -1 and Run throws.
EpollWaitFails ==
    /\ rpc = "wait"
    /\ rpc' = "fatal"
    /\ err' = "EpollWait"
    /\ UNCHANGED <<num, echo, mx, tasks_, wpc, wcur, ownerVars, wloc, did, envVars, fdVars,
                   events, rcur, failed, cb, uac>>

\* ~Server (lines 114-117; src/server.h lines 128-131), run when the Error
\* that Run threw unwinds into main's catch: the epoll instance, and with it
\* every registration, and the listening socket are closed.
ServerDestructor ==
    /\ rpc = "fatal"
    /\ rpc' = "gone"
    /\ interest' = {}
    /\ UNCHANGED <<num, echo, mx, tasks_, wpc, wcur, ownerVars, wloc, did, envVars, fdtab,
                   life, nclose, events, rcur, err, failed, cb, uac>>

\* ~ThreadPool (thread_pool.h lines 43-45), run after ~Server's body for the
\* member _thread_pool: Stop.
PoolDestructor ==
    /\ rpc = "gone"
    /\ \/ StopPush
       \/ StopJoin
       \/ StopDrain

\* lines 152-154: an event with EPOLLHUP is skipped.
RunSkipHup ==
    /\ rpc = "loop"
    /\ Head(events).hup
    /\ events' = Tail(events)
    /\ rpc' = AfterEvent(Tail(events))
    /\ UNCHANGED <<num, echo, mx, tasks_, wpc, wcur, ownerVars, wloc, did, envVars, fdVars,
                   rcur, err, failed, cb, uac>>

\* Run as it would be if a failed accept were fatal: it throws instead of
\* going on to the next event.
RunAcceptFatal ==
    /\ rpc = "loop"
    /\ ~Head(events).hup
    /\ Head(events).fd = ServerFd
    /\ rcur' = [fd |-> ServerFd, n |-> -1, conn |-> 0]
    /\ events' = Tail(events)
    /\ rpc' = "fatal"
    /\ UNCHANGED <<num, echo, mx, tasks_, wpc, wcur, ownerVars, wloc, did, envVars, fdVars,
                   cb, uac, err, failed>>

\* lines 156-167: the listening socket is ready and accept returns -1.
RunAcceptFails ==
    /\ rpc = "loop"
    /\ ~Head(events).hup
    /\ Head(events).fd = ServerFd
    /\ rcur' = [fd |-> ServerFd, n |-> -1, conn |-> 0]
    /\ events' = Tail(events)
    /\ rpc' = AfterEvent(Tail(events))
    /\ UNCHANGED <<num, echo, mx, tasks_, wpc, wcur, ownerVars, wloc, did, envVars, fdVars,
                   cb, uac, err, failed>>

\* lines 156-187: accept returns a descriptor, and setsockopt or epoll_ctl
\* fails on it: the descriptor is closed and the connection ignored.
RunAcceptDrops ==
    /\ rpc = "loop"
    /\ ~Head(events).hup
    /\ Head(events).fd = ServerFd
    /\ backlog # <<>>
    /\ HasFree
    /\ backlog' = Tail(backlog)
    /\ life' = [life EXCEPT ![Head(backlog)] = "dropped"]
    /\ nclose' = [nclose EXCEPT ![Head(backlog)] = @ + 1]
    /\ events' = Tail(events)
    /\ rpc' = AfterEvent(Tail(events))
    /\ UNCHANGED <<num, echo, mx, tasks_, wpc, wcur, ownerVars, wloc, did, peer, nsent,
                   rcvq, fdtab, interest, rcur, err, failed, cb, uac>>

\* lines 156-189: accept, both setsockopt and epoll_ctl(ADD) succeed, and a
\* HandleNewConnection task that captures client_fd is pushed.
RunAccept ==
    /\ rpc = "loop"
    /\ ~Head(events).hup
    /\ Head(events).fd = ServerFd
    /\ backlog # <<>>
    /\ HasFree
    /\ backlog' = Tail(backlog)
    /\ fdtab' = [fdtab EXCEPT ![LowestFree] = Head(backlog)]
    /\ interest' = interest \cup {LowestFree}
    /\ life' = [life EXCEPT ![Head(backlog)] = "registered"]
    /\ tasks_' = emplace(tasks_, Task("HandleNewConnection", LowestFree, 0,
                                      Head(backlog), 0))
    /\ wpc' \in notify_one(wpc)
    /\ events' = Tail(events)
    /\ rpc' = AfterEvent(Tail(events))
    /\ UNCHANGED <<num, echo, mx, wcur, ownerVars, wloc, did, peer, nsent, rcvq, nclose,
                   rcur, err, failed, cb, uac>>

\* lines 190-219, n > 0: read takes a chunk and a HandleRead task that
\* captures client_fd and the buffer is pushed.
RunRead ==
    /\ rpc = "loop"
    /\ ~Head(events).hup
    /\ Head(events).fd # ServerFd
    /\ 1 \in ReadResults(Head(events).fd)
    /\ rcvq' = [rcvq EXCEPT ![fdtab[Head(events).fd]] = @ - 1]
    /\ tasks_' = emplace(tasks_, Task("HandleRead", Head(events).fd, 0,
                                      fdtab[Head(events).fd], 0))
    /\ wpc' \in notify_one(wpc)
    /\ uac' = Used(Head(events).fd, Head(events).conn)
    /\ events' = Tail(events)
    /\ rpc' = AfterEvent(Tail(events))
    /\ UNCHANGED <<num, echo, mx, wcur, ownerVars, wloc, did, backlog, peer, nsent, fdVars,
                   rcur, err, failed, cb>>

\* lines 194-201, 209: read returns -1 or 0.
RunReadEnds ==
    /\ rpc = "loop"
    /\ ~Head(events).hup
    /\ Head(events).fd # ServerFd
    /\ \E n \in ReadResults(Head(events).fd) \cap {-1, 0} :
          /\ rcur' = [fd |-> Head(events).fd, n |-> n, conn |-> Head(events).conn]
          /\ peer' = IF n = -1 THEN Reported(Head(events).fd) ELSE peer
    /\ uac' = Used(Head(events).fd, Head(events).conn)
    /\ events' = Tail(events)
    /\ rpc' = "close"
    /\ UNCHANGED <<num, echo, mx, tasks_, wpc, wcur, ownerVars, wloc, did, backlog, nsent,
                   rcvq, fdVars, cb, err, failed>>

\* The task Run pushes after a read that returned n <= 0 (lines 208, 216):
\* the handler's OnError, or its OnClose, with the address captured.
EndTask(n, a, c) == Task(IF n = -1 THEN "OnError" ELSE "OnClose", 0, a, c, 0)

\* A Run that calls the handler itself after a read that returned n <= 0.
RunCloseInline ==
    /\ rpc = "close"
    /\ Close(rcur.fd, rcur.conn)
    /\ cb' = Called(IF rcur.n = -1 THEN "OnErrorRead" ELSE "OnClose",
                    GetClientAddress(rcur.fd))
    /\ rpc' = AfterEvent(events)
    /\ UNCHANGED <<num, echo, mx, tasks_, wpc, wcur, ownerVars, wloc, did, envVars, events,
                   rcur, err, failed>>

\* lines 201-216: GetClientAddress, close(client_fd), and the push of the
\* task that calls OnError (n = -1) or OnClose (n = 0).
RunClose ==
    /\ rpc = "close"
    /\ Close(rcur.fd, rcur.conn)
    /\ tasks_' = emplace(tasks_, EndTask(rcur.n, GetClientAddress(rcur.fd),
                                         rcur.conn))
    /\ wpc' \in notify_one(wpc)
    /\ rpc' = AfterEvent(events)
    /\ UNCHANGED <<num, echo, mx, wcur, ownerVars, wloc, did, envVars, events, rcur, err, failed, cb>>

\* ------------------- src/include/tcp/server.h: the tasks, run by workers
\* The worker's task function has returned: back to the top of the loop.
TaskReturns(w) ==
    /\ wpc' = [wpc EXCEPT ![w] = "lock"]
    /\ wcur' = [wcur EXCEPT ![w] = NoTask]
    /\ wloc' = [wloc EXCEPT ![w] = NoLocals]
    /\ did' = [did EXCEPT ![w] = {}]

\* HandleNewConnection lines 231-236 and HandleRead lines 258-265:
\* GetClientAddress, then the handler's callback, which fills out_buf or
\* not and returns keep_alive.
TaskCall(w, kind, callback) ==
    /\ wpc[w] = "call"
    /\ wcur[w].kind = kind
    /\ \E keep \in BOOLEAN, out \in BOOLEAN :
          wloc' = [wloc EXCEPT ![w] = [addr |-> GetClientAddress(wcur[w].fd),
                                       keep |-> keep, out |-> out]]
    /\ cb' = Called(callback, GetClientAddress(wcur[w].fd))
    /\ did' = [did EXCEPT ![w] = {callback}]
    /\ uac' = Used(wcur[w].fd, wcur[w].conn)
    /\ wpc' = [wpc EXCEPT ![w] = "write"]
    /\ UNCHANGED <<num, echo, mx, tasks_, wcur, ownerVars, envVars, fdVars, reactorVars>>

HandleNewConnection(w) == TaskCall(w, "HandleNewConnection", "OnNew")

HandleRead(w) == TaskCall(w, "HandleRead", "OnRead")

\* A task that closes the connection whatever the handler returned.
AlwaysClose(keep) == "kclose"

\* Where the task goes once the response is written (lines 249-253,
\* 279-283): close(client_fd) if the handler asked for it.
AfterWrite(keep) == IF keep THEN "return" ELSE "kclose"

\* Write (lines 288-294) with an empty out_buf: no system call.
TaskNoWrite(w) ==
    /\ wpc[w] = "write"
    /\ ~wloc[w].out
    /\ IF AfterWrite(wloc[w].keep) = "return"
       THEN TaskReturns(w)
       ELSE wpc' = [wpc EXCEPT ![w] = "kclose"] /\ UNCHANGED <<wcur, wloc, did>>
    /\ UNCHANGED <<num, echo, mx, tasks_, ownerVars, netVars>>

\* Write (lines 288-294): write succeeds.
TaskWrite(w) ==
    /\ wpc[w] = "write"
    /\ wloc[w].out
    /\ TRUE \in WriteResults(wcur[w].fd)
    /\ uac' = Used(wcur[w].fd, wcur[w].conn)
    /\ IF AfterWrite(wloc[w].keep) = "return"
       THEN TaskReturns(w)
       ELSE /\ wpc' = [wpc EXCEPT ![w] = "kclose"]
            /\ did' = [did EXCEPT ![w] = @ \cup {"write"}]
            /\ UNCHANGED <<wcur, wloc>>
    /\ UNCHANGED <<num, echo, mx, tasks_, ownerVars, envVars, fdVars, reactorVars, cb>>

\* Write (lines 288-294): write returns -1 and Write throws.
TaskWriteFails(w) ==
    /\ wpc[w] = "write"
    /\ wloc[w].out
    /\ FALSE \in WriteResults(wcur[w].fd)
    /\ did' = [did EXCEPT ![w] = @ \cup {"wfail"}]
    /\ uac' = Used(wcur[w].fd, wcur[w].conn)
    /\ peer' = Reported(wcur[w].fd)
    /\ wpc' = [wpc EXCEPT ![w] = "wclose"]
    /\ UNCHANGED <<num, echo, mx, tasks_, wcur, ownerVars, wloc, backlog, nsent, rcvq,
                   fdVars, reactorVars, cb>>

\* Write (lines 288-294; src/server.h lines 200, 248): write raises SIGPIPE
\* and the process is terminated, all its threads with it.
TaskWriteKilled(w) ==
    /\ wpc[w] = "write"
    /\ wloc[w].out
    /\ Sigpipe(wcur[w].fd)
    /\ wpc' = [v \in Workers |-> IF wpc[v] \in {"absent", "exited"} THEN wpc[v]
                                                                  ELSE "killed"]
    /\ rpc' = "killed"
    /\ UNCHANGED <<num, echo, mx, tasks_, wcur, ownerVars, wloc, did, envVars, fdVars,
                   events, rcur, err, failed, cb, uac>>

\* lines 241-243, 271-273: the catch block closes client_fd.
TaskCatchClose(w) ==
    /\ wpc[w] = "wclose"
    /\ Close(wcur[w].fd, wcur[w].conn)
    /\ did' = [did EXCEPT ![w] = @ \cup {"close"}]
    /\ wpc' = [wpc EXCEPT ![w] = "onerror"]
    /\ UNCHANGED <<num, echo, mx, tasks_, wcur, ownerVars, wloc, envVars, reactorVars, cb>>

\* lines 246, 276: return handler.OnError(client_addr, e), e of kind Write.
TaskOnError(w) ==
    /\ wpc[w] = "onerror"
    /\ cb' = Called("OnErrorWrite", wloc[w].addr)
    /\ TaskReturns(w)
    /\ UNCHANGED <<num, echo, mx, tasks_, ownerVars, envVars, fdVars, reactorVars, uac>>

\* lines 250-253, 280-283: keep_alive is false, close(client_fd).
TaskKeepAliveClose(w) ==
    /\ wpc[w] = "kclose"
    /\ Close(wcur[w].fd, wcur[w].conn)
    /\ TaskReturns(w)
    /\ UNCHANGED <<num, echo, mx, tasks_, ownerVars, envVars, reactorVars, cb>>

\* The task pushed at line 216: handler.OnClose(client_addr).
TaskOnClose(w) ==
    /\ wpc[w] = "call"
    /\ wcur[w].kind = "OnClose"
    /\ cb' = Called("OnClose", wcur[w].addr)
    /\ TaskReturns(w)
    /\ UNCHANGED <<num, echo, mx, tasks_, ownerVars, envVars, fdVars, reactorVars, uac>>

\* The task pushed at line 208: handler.OnError(client_addr, {.., Read}).
TaskOnReadError(w) ==
    /\ wpc[w] = "call"
    /\ wcur[w].kind = "OnError"
    /\ cb' = Called("OnErrorRead", wcur[w].addr)
    /\ TaskReturns(w)
    /\ UNCHANGED <<num, echo, mx, tasks_, ownerVars, envVars, fdVars, reactorVars, uac>>

\* Server(port, threads, buf_size, max_events) with at least one thread, and
\* Run up to its loop (lines 73-138).
Init ==
    /\ num \in 1..MaxThreads
    /\ tasks_ = <<>>
    /\ wpc = [w \in Workers |-> IF w <= num THEN "lock" ELSE "absent"]
    /\ wcur = [w \in Workers |-> NoTask]
    /\ opc = "idle"
    /\ pushed = 0
    /\ joined = 0
    /\ ran = [i \in TaskIds |-> 0]
    /\ InitNet

Clients ==
    \E c \in 1..MaxTalkers :
        \/ ClientConnect(c)
        \/ ClientSend(c)
        \/ ClientClose(c)

\* Clients that connect and disconnect and send nothing: each closes or
\* aborts its connection once.
SilentClients ==
    \E c \in Conns :
        \/ ClientConnect(c)
        \/ peer[c] = "open" /\ ClientClose(c)

Run ==
    \/ EpollWait
    \/ EpollWaitFails
    \/ ServerDestructor
    \/ PoolDestructor
    \/ RunSkipHup
    \/ RunAcceptFails
    \/ RunAcceptDrops
    \/ RunAccept
    \/ RunRead
    \/ RunReadEnds
    \/ RunClose

RunTask(w) ==
    \/ HandleNewConnection(w)
    \/ HandleRead(w)
    \/ TaskNoWrite(w)
    \/ TaskWrite(w)
    \/ TaskWriteFails(w)
    \/ TaskWriteKilled(w)
    \/ TaskCatchClose(w)
    \/ TaskOnError(w)
    \/ TaskKeepAliveClose(w)
    \/ TaskOnClose(w)
    \/ TaskOnReadError(w)

Next ==
    \/ Clients
    \/ Run
    \/ \E w \in Workers : WorkerStep(w)
    \/ \E w \in Workers : RunTask(w)

Spec == Init /\ [][Next]_vars

\* ------------------------- src/include/tcp/server.h: construction and set-up
\* The steps between the construction of the members and Run's loop, in the
\* order in which the code tests them: the constructor's checks (lines
\* 84-108), then Run's listen and epoll_ctl (lines 127-135).
SetupSteps ==
    <<"max_events", "epoll_create1", "socket", "setsockopt", "bind", "listen",
      "epoll_ctl">>

\* The steps that belong to the constructor.
CtorSteps == {"max_events", "epoll_create1", "socket", "setsockopt", "bind"}

\* The Error::Kind the code throws when a step fails.
ThrownKind(step) ==
    CASE step = "max_events"    -> "EpollCreation"
      [] step = "epoll_create1" -> "EpollCreation"
      [] step = "socket"        -> "SocketCreation"
      [] step = "setsockopt"    -> "SocketCreation"
      [] step = "bind"          -> "SocketBinding"
      [] step = "listen"        -> "SocketListening"
      [] step = "epoll_ctl"     -> "EpollAdd"

\* The values of max_events a caller may pass.
MaxEventsArgs == {-1, 0, MaxEvents}

\* Where Run is after step i went through: at the next step, or at
\* epoll_wait.
AfterSetup(i) == IF i < Len(SetupSteps) THEN SetupSteps[i + 1] ELSE "wait"

\* A step goes through (for max_events: the argument is positive).
SetupStep ==
    /\ \E i \in DOMAIN SetupSteps :
          /\ rpc = SetupSteps[i]
          /\ rpc = "max_events" => \E max_events \in MaxEventsArgs : max_events > 0
          /\ rpc' = AfterSetup(i)
    /\ UNCHANGED <<num, echo, mx, tasks_, wpc, wcur, ownerVars, wloc, did, envVars, fdVars,
                   events, rcur, err, failed, cb, uac>>

\* A step that fails and is not reported: the set-up goes on.
SetupGoesOn ==
    /\ \E i \in DOMAIN SetupSteps :
          /\ rpc = SetupSteps[i]
          /\ rpc = "max_events" => \E max_events \in MaxEventsArgs : max_events <= 0
          /\ failed' = rpc
          /\ rpc' = AfterSetup(i)
    /\ UNCHANGED <<num, echo, mx, tasks_, wpc, wcur, ownerVars, wloc, did, envVars, fdVars,
                   events, rcur, err, cb, uac>>

\* A step fails (for max_events: the argument is not positive) and the code
\* throws.  An Error thrown by the constructor destroys the members, so
\* ~ThreadPool runs and ~Server does not; one thrown by Run unwinds into
\* main's catch through ~Server.
SetupFails ==
    /\ rpc \in {SetupSteps[i] : i \in DOMAIN SetupSteps}
    /\ rpc = "max_events" => \E max_events \in MaxEventsArgs : max_events <= 0
    /\ failed' = rpc
    /\ err' = ThrownKind(rpc)
    /\ rpc' = IF rpc \in CtorSteps THEN "gone" ELSE "fatal"
    /\ UNCHANGED <<num, echo, mx, tasks_, wpc, wcur, ownerVars, wloc, did, envVars, fdVars,
                   events, rcur, cb, uac>>

\* The members are constructed (the pool's threads run, lines 77-82) and the
\* constructor's body is about to start; nobody can connect yet.
InitSetup ==
    /\ num \in 1..MaxThreads
    /\ echo = NoEcho
    /\ mx = NoMx
    /\ tasks_ = <<>>
    /\ wpc = [w \in Workers |-> IF w <= num THEN "lock" ELSE "absent"]
    /\ wcur = [w \in Workers |-> NoTask]
    /\ opc = "idle"
    /\ pushed = 0
    /\ joined = 0
    /\ ran = [i \in TaskIds |-> 0]
    /\ wloc = [w \in Workers |-> NoLocals]
    /\ did = [w \in Workers |-> {}]
    /\ backlog = <<>>
    /\ peer = [c \in Conns |-> "none"]
    /\ nsent = [c \in Conns |-> 0]
    /\ rcvq = [c \in Conns |-> 0]
    /\ fdtab = [fd \in FDs |-> 0]
    /\ interest = {}
    /\ rpc = SetupSteps[1]
    /\ events = <<>>
    /\ rcur = [fd |-> 0, n |-> 0, conn |-> 0]
    /\ err = "none"
    /\ failed = "none"
    /\ cb = [k \in CbKinds |-> [a \in Addrs |-> 0]]
    /\ life = [c \in Conns |-> "none"]
    /\ nclose = [c \in Conns |-> 0]
    /\ uac = {}

\* The socket listens: the kernel completes connections on it.
Listening == rpc \notin CtorSteps \cup {"listen"}

Next_setup ==
    \/ SetupStep
    \/ SetupFails
    \/ Listening /\ Clients
    \/ Run
    \/ \E w \in Workers : WorkerStep(w)
    \/ \E w \in Workers : RunTask(w)

Spec_setup == InitSetup /\ [][Next_setup]_vars

\* ------------------------------------------------ src/server.h: Server::Run
\* Tasks that may wait in the queue of this server: its Run pushes a task for
\* every event of every epoll_wait, and a level-triggered descriptor is
\* reported again until a worker has read it; Run pushes while the queue is
\* shorter than this.
MaxQueue == 2

\* The closure Run pushes for an event (lines 163-168): HandleNewConnection
\* captures nothing of the event, HandleConnectionUpdate its data.fd.
TaskFor(e) ==
    IF e.fd = ServerFd
    THEN Task("HandleNewConnection_v1", 0, 0, 0, 0)
    ELSE Task("HandleConnectionUpdate", e.fd, 0, e.conn, 0)

\* lines 162-169: one event of the batch, whatever its flags: a task is pushed.
Run_v1 ==
    /\ rpc = "loop"
    /\ Len(tasks_) < MaxQueue
    /\ tasks_' = emplace(tasks_, TaskFor(Head(events)))
    /\ wpc' \in notify_one(wpc)
    /\ events' = Tail(events)
    /\ rpc' = AfterEvent(Tail(events))
    /\ UNCHANGED <<num, echo, mx, wcur, ownerVars, wloc, did, envVars, fdVars, rcur, err, failed, cb,
                   uac>>

\* ----------------------------------- src/server.h: the tasks, run by workers
\* A task function throws Error: the exception ends the function and stays in
\* the packaged_task that Push wrapped it in; nobody reads it.
TaskThrows(w) ==
    /\ wpc[w] = "throw"
    /\ TaskReturns(w)
    /\ UNCHANGED <<num, echo, mx, tasks_, ownerVars, netVars>>

\* HandleNewConnection lines 179-182: accept returns -1 (the backlog is empty,
\* no descriptor is free, the connection was aborted, or _server_fd is
\* closed).
AcceptThrows(w) ==
    /\ wpc[w] = "call"
    /\ wcur[w].kind = "HandleNewConnection_v1"
    /\ wpc' = [wpc EXCEPT ![w] = "throw"]
    /\ UNCHANGED <<num, echo, mx, tasks_, wcur, ownerVars, wloc, did, netVars>>

\* HandleNewConnection lines 179-193: accept returns a descriptor and
\* MakeSocketNonBlocking or epoll_ctl(ADD) fails: the function throws with
\* the descriptor open and not registered.
AcceptLeaks(w) ==
    /\ wpc[w] = "call"
    /\ wcur[w].kind = "HandleNewConnection_v1"
    /\ rpc # "gone"
    /\ backlog # <<>>
    /\ HasFree
    /\ backlog' = Tail(backlog)
    /\ fdtab' = [fdtab EXCEPT ![LowestFree] = Head(backlog)]
    /\ life' = [life EXCEPT ![Head(backlog)] = "leaked"]
    /\ wpc' = [wpc EXCEPT ![w] = "throw"]
    /\ UNCHANGED <<num, echo, mx, tasks_, wcur, ownerVars, wloc, did, peer, nsent, rcvq,
                   interest, reactorVars, cb, nclose, uac>>

\* HandleNewConnection lines 179-193: accept, MakeSocketNonBlocking and
\* epoll_ctl(ADD) succeed; client_fd and client_addr are locals of the task.
HandleNewConnection_v1(w) ==
    /\ wpc[w] = "call"
    /\ wcur[w].kind = "HandleNewConnection_v1"
    /\ rpc # "gone"
    /\ backlog # <<>>
    /\ HasFree
    /\ backlog' = Tail(backlog)
    /\ fdtab' = [fdtab EXCEPT ![LowestFree] = Head(backlog)]
    /\ interest' = interest \cup {LowestFree}
    /\ life' = [life EXCEPT ![Head(backlog)] = "registered"]
    /\ wcur' = [wcur EXCEPT ![w].fd = LowestFree, ![w].conn = Head(backlog)]
    /\ wloc' = [wloc EXCEPT ![w].addr = Head(backlog)]
    /\ wpc' = [wpc EXCEPT ![w] = "onnew"]
    /\ UNCHANGED <<num, echo, mx, tasks_, ownerVars, did, peer, nsent, rcvq, reactorVars,
                   cb, nclose, uac>>

\* HandleNewConnection lines 196-197: handler.OnNew(client_addr, out_buf).
OnNew_v1(w) ==
    /\ wpc[w] = "onnew"
    /\ \E keep \in BOOLEAN, out \in BOOLEAN :
          wloc' = [wloc EXCEPT ![w].keep = keep, ![w].out = out]
    /\ cb' = Called("OnNew", wloc[w].addr)
    /\ did' = [did EXCEPT ![w] = {"OnNew"}]
    /\ wpc' = [wpc EXCEPT ![w] = "write"]
    /\ UNCHANGED <<num, echo, mx, tasks_, wcur, ownerVars, envVars, fdVars, reactorVars,
                   uac>>

\* What the read of HandleConnectionUpdate leads to (lines 219-239).
AfterRead(n) == IF n = -1 THEN "throw" ELSE IF n = 0 THEN "eof" ELSE "onread"

\* What the task has done once its read returned n (history).
ReadMark(n) == IF n = -1 THEN "rfail" ELSE IF n = 0 THEN "eof" ELSE "read"

\* HandleConnectionUpdate lines 215-223: read(client_socket, ...); -1 throws
\* Error of kind Read.
HandleConnectionUpdate(w) ==
    /\ wpc[w] = "call"
    /\ wcur[w].kind = "HandleConnectionUpdate"
    /\ \E n \in ReadResults(wcur[w].fd) :
          /\ rcvq' = IF n = 1 THEN [rcvq EXCEPT ![fdtab[wcur[w].fd]] = @ - 1]
                              ELSE rcvq
          /\ peer' = IF n = -1 THEN Reported(wcur[w].fd) ELSE peer
          /\ did' = [did EXCEPT ![w] = {ReadMark(n)}]
          /\ wpc' = [wpc EXCEPT ![w] = AfterRead(n)]
    /\ uac' = Used(wcur[w].fd, wcur[w].conn)
    /\ UNCHANGED <<num, echo, mx, tasks_, wcur, ownerVars, wloc, backlog, nsent, fdVars,
                   reactorVars, cb>>

\* GetClientAddress (lines 281-288) at line 225 or 241: getpeername fails
\* and the function throws.
GetAddressThrows(w) ==
    /\ wpc[w] \in {"eof", "onread"}
    /\ ~HasPeerName(wcur[w].fd)
    /\ uac' = Used(wcur[w].fd, wcur[w].conn)
    /\ wpc' = [wpc EXCEPT ![w] = "throw"]
    /\ UNCHANGED <<num, echo, mx, tasks_, wcur, ownerVars, wloc, did, envVars, fdVars,
                   reactorVars, cb>>

\* HandleConnectionUpdate lines 223-225: n == 0, the address is looked up.
EofAddress(w) ==
    /\ wpc[w] = "eof"
    /\ HasPeerName(wcur[w].fd)
    /\ wloc' = [wloc EXCEPT ![w] = [addr |-> fdtab[wcur[w].fd], keep |-> FALSE,
                                    out |-> FALSE]]
    /\ uac' = Used(wcur[w].fd, wcur[w].conn)
    /\ wpc' = [wpc EXCEPT ![w] = "del"]
    /\ UNCHANGED <<num, echo, mx, tasks_, wcur, ownerVars, did, envVars, fdVars,
                   reactorVars, cb>>

\* HandleConnectionUpdate lines 241-245: the address is looked up and
\* handler.OnRead(client_addr, in_buf, out_buf) called.
OnRead_v1(w) ==
    /\ wpc[w] = "onread"
    /\ HasPeerName(wcur[w].fd)
    /\ \E keep \in BOOLEAN, out \in BOOLEAN :
          wloc' = [wloc EXCEPT ![w] = [addr |-> fdtab[wcur[w].fd],
                                       keep |-> keep, out |-> out]]
    /\ cb' = Called("OnRead", fdtab[wcur[w].fd])
    /\ did' = [did EXCEPT ![w] = @ \cup {"OnRead"}]
    /\ uac' = Used(wcur[w].fd, wcur[w].conn)
    /\ wpc' = [wpc EXCEPT ![w] = "write"]
    /\ UNCHANGED <<num, echo, mx, tasks_, wcur, ownerVars, envVars, fdVars, reactorVars>>

\* Where the task goes after the response (lines 205, 253): CloseConnection
\* if the handler asked for it.
AfterWrite_v1(keep) == IF keep THEN "return" ELSE "del"

\* lines 198, 246: out_buf is empty, nothing is written.
NoWrite_v1(w) ==
    /\ wpc[w] = "write"
    /\ ~wloc[w].out
    /\ IF AfterWrite_v1(wloc[w].keep) = "return"
       THEN TaskReturns(w)
       ELSE wpc' = [wpc EXCEPT ![w] = "del"] /\ UNCHANGED <<wcur, wloc, did>>
    /\ UNCHANGED <<num, echo, mx, tasks_, ownerVars, netVars>>

\* lines 198-203, 246-251: write succeeds.
Write_v1(w) ==
    /\ wpc[w] = "write"
    /\ wloc[w].out
    /\ TRUE \in WriteResults(wcur[w].fd)
    /\ uac' = Used(wcur[w].fd, wcur[w].conn)
    /\ IF AfterWrite_v1(wloc[w].keep) = "return"
       THEN TaskReturns(w)
       ELSE /\ wpc' = [wpc EXCEPT ![w] = "del"]
            /\ did' = [did EXCEPT ![w] = @ \cup {"write"}]
            /\ UNCHANGED <<wcur, wloc>>
    /\ UNCHANGED <<num, echo, mx, tasks_, ownerVars, envVars, fdVars, reactorVars, cb>>

\* lines 200-202, 248-250: write returns -1 and the function throws Error of
\* kind Write.
WriteThrows(w) ==
    /\ wpc[w] = "write"
    /\ wloc[w].out
    /\ FALSE \in WriteResults(wcur[w].fd)
    /\ did' = [did EXCEPT ![w] = @ \cup {"wfail"}]
    /\ uac' = Used(wcur[w].fd, wcur[w].conn)
    /\ peer' = Reported(wcur[w].fd)
    /\ wpc' = [wpc EXCEPT ![w] = "throw"]
    /\ UNCHANGED <<num, echo, mx, tasks_, wcur, ownerVars, wloc, backlog, nsent, rcvq,
                   fdVars, reactorVars, cb>>

\* CloseConnection lines 263-265 (and lines 228-230): epoll_ctl(DEL); it
\* fails, and the function throws, when the descriptor is not registered.
CloseConnectionDel(w) ==
    /\ wpc[w] = "del"
    /\ interest' = interest \ {wcur[w].fd}
    /\ uac' = Used(wcur[w].fd, wcur[w].conn)
    /\ wpc' = [wpc EXCEPT ![w] = IF wcur[w].fd \in interest THEN "close"
                                                           ELSE "throw"]
    /\ UNCHANGED <<num, echo, mx, tasks_, wcur, ownerVars, wloc, did, envVars, fdtab,
                   life, nclose, reactorVars, cb>>

\* CloseConnection lines 268-270 (and lines 233-235): close(client_socket);
\* it fails, and the function throws, when the descriptor is not open.
CloseConnection(w) ==
    /\ wpc[w] = "close"
    /\ Close(wcur[w].fd, wcur[w].conn)
    /\ did' = [did EXCEPT ![w] = @ \cup {"close"}]
    /\ wpc' = [wpc EXCEPT ![w] = IF fdtab[wcur[w].fd] # 0 THEN "onclose"
                                                        ELSE "throw"]
    /\ UNCHANGED <<num, echo, mx, tasks_, wcur, ownerVars, wloc, envVars, reactorVars, cb>>

\* lines 208, 238, 256: handler.OnClose(client_addr), and the task returns.
OnClose_v1(w) ==
    /\ wpc[w] = "onclose"
    /\ cb' = Called("OnClose", wloc[w].addr)
    /\ TaskReturns(w)
    /\ UNCHANGED <<num, echo, mx, tasks_, ownerVars, envVars, fdVars, reactorVars, uac>>

RunTask_v1(w) ==
    \/ TaskThrows(w)
    \/ AcceptThrows(w)
    \/ AcceptLeaks(w)
    \/ HandleNewConnection_v1(w)
    \/ OnNew_v1(w)
    \/ HandleConnectionUpdate(w)
    \/ GetAddressThrows(w)
    \/ EofAddress(w)
    \/ OnRead_v1(w)
    \/ NoWrite_v1(w)
    \/ Write_v1(w)
    \/ WriteThrows(w)
    \/ TaskWriteKilled(w)
    \/ CloseConnectionDel(w)
    \/ CloseConnection(w)
    \/ OnClose_v1(w)

\* src/server.h: epoll_wait and its failure are lines 156-159, the same code
\* as in src/include/tcp/server.h.
Next_v1 ==
    \/ Clients
    \/ EpollWait
    \/ EpollWaitFails
    \/ ServerDestructor
    \/ PoolDestructor
    \/ Run_v1
    \/ \E w \in Workers : WorkerStep(w)
    \/ \E w \in Workers : RunTask_v1(w)

Spec_v1 == Init /\ [][Next_v1]_vars

\* src/server.h with clients that send nothing: no read returns data, so
\* OnRead is never reached.
RunTask_v1_silent(w) ==
    \/ TaskThrows(w)
    \/ AcceptThrows(w)
    \/ AcceptLeaks(w)
    \/ HandleNewConnection_v1(w)
    \/ OnNew_v1(w)
    \/ HandleConnectionUpdate(w)
    \/ GetAddressThrows(w)
    \/ EofAddress(w)
    \/ NoWrite_v1(w)
    \/ Write_v1(w)
    \/ WriteThrows(w)
    \/ TaskWriteKilled(w)
    \/ CloseConnectionDel(w)
    \/ CloseConnection(w)
    \/ OnClose_v1(w)

Next_v1_silent ==
    \/ SilentClients
    \/ EpollWait
    \/ EpollWaitFails
    \/ ServerDestructor
    \/ PoolDestructor
    \/ Run_v1
    \/ \E w \in Workers : WorkerStep(w)
    \/ \E w \in Workers : RunTask_v1_silent(w)

Spec_v1_silent == Init /\ [][Next_v1_silent]_vars

\* ------------------------------------------------- claims on the servers
\* Terminal notifications the handler got with address a.
Terminals(a) == cb["OnClose"][a] + cb["OnErrorRead"][a] + cb["OnErrorWrite"][a]

\* Nothing is queued or running and Run is blocked in epoll_wait.
Quiet ==
    /\ tasks_ = <<>>
    /\ \A w \in Workers : wpc[w] \in {"absent", "lock", "blocked"}
    /\ rpc = "wait"

\* This step is worker w returning from a HandleNewConnection or HandleRead
\* task (or from their counterparts of src/server.h).
TaskEnds(w) ==
    /\ wcur[w].kind \in {"HandleNewConnection", "HandleRead",
                         "HandleNewConnection_v1", "HandleConnectionUpdate"}
    /\ wpc'[w] = "lock"
    /\ wpc[w] # "lock"

\* In this step, or earlier in its task, worker w called callback k.
Reports(w, k) == k \in did[w] \/ cb'[k] # cb[k]

\* C1: OnNew is invoked at most once per connection, and before any OnRead
\* for the same connection.
C1_AsStated ==
    \A c \in Conns :
        /\ cb["OnNew"][c] <= 1
        /\ cb["OnRead"][c] > 0 => cb["OnNew"][c] > 0

\* C2: a connection that was registered gets exactly one of OnClose/OnError:
\* never two, and, once it is closed and the server has nothing left to do,
\* not none.
C2_AsStated ==
    \A c \in Conns :
        /\ Terminals(c) <= 1
        /\ (life[c] = "closed" /\ Quiet) => Terminals(c) = 1

\* C3: close is issued at most once on the descriptor of a connection.
C3_AsStated == \A c \in Conns : nclose[c] <= 1

\* C4: no read, write, getpeername or close is issued on a descriptor after
\* it was closed.
C4_AsStated == uac = {}

\* C7: a task whose handler returned keep_alive = false and whose write did
\* not fail has, when it returns, closed the descriptor and delivered OnClose
\* with the connection's address.
C7_AsStated ==
    [][\A w \in Workers :
          (TaskEnds(w) /\ ~wloc[w].keep /\ did[w] \cap {"OnNew", "OnRead"} # {}
                       /\ "wfail" \notin did[w])
          => /\ fdtab'[wcur[w].fd] # wcur[w].conn
             /\ cb'["OnClose"][wcur[w].conn] >= 1]_vars

\* C8: when a read on a registered connection returns 0, the server closes
\* the descriptor and the OnClose it delivers carries that connection's
\* address (and no OnRead or write is made for the event).
C8_AsStated ==
    [][(rpc = "close" /\ rpc' # "close" /\ rcur.n = 0)
       => /\ fdtab'[rcur.fd] = 0
          /\ tasks_' = Append(tasks_, Task("OnClose", 0, rcur.conn, rcur.conn, 0))]_vars

\* C9: a task whose read failed has, when it returns, closed the descriptor
\* and called OnError with kind Read, and has not called OnRead.
C9_AsStated ==
    [][\A w \in Workers :
          (TaskEnds(w) /\ "rfail" \in did[w])
          => /\ "close" \in did[w]
             /\ Reports(w, "OnErrorRead")
             /\ ~Reports(w, "OnRead")]_vars

\* C10: a task whose write failed has, when it returns, closed the
\* descriptor and called OnError with kind Write, and has not called OnClose.
C10_AsStated ==
    [][\A w \in Workers :
          (TaskEnds(w) /\ "wfail" \in did[w])
          => /\ "close" \in did[w]
             /\ Reports(w, "OnErrorWrite")
             /\ ~Reports(w, "OnClose")]_vars


\* Worker w is inside a task that the server pushed.
InTask(w) ==
    /\ wcur[w].kind \notin {"none", "stop", "job"}
    /\ wpc[w] \notin {"absent", "lock", "blocked", "relay", "exited"}

\* C11: every call of a handler callback is a step of a worker inside a task
\* it dequeued, and never a step of Run.
C11_OnWorkersOnly ==
    [][cb' # cb =>
          /\ rpc' = rpc
          /\ events' = events
          /\ rcur' = rcur
          /\ \E w \in Workers : InTask(w) /\ wpc'[w] # wpc[w]]_vars

\* A connection for which OnNew, OnRead and a terminal callback were called.
C11_Witness ==
    \E a \in Conns :
        /\ cb["OnNew"][a] > 0
        /\ cb["OnRead"][a] > 0
        /\ Terminals(a) > 0

\* C12: the step Run takes for an event on a connection descriptor reads
\* nothing from the connection: it takes no data from it and holds no result
\* of a read.
C12_AsStated ==
    [][(rpc = "loop" /\ events' # events /\ Head(events).fd # ServerFd)
       => /\ rcvq' = rcvq
          /\ rpc' # "close"]_vars

C14_AsStated ==
    [][\A fd \in FDs :
          (fdtab[fd] # 0 /\ fdtab'[fd] = 0) => fd \notin interest]_vars

\* C15: unless epoll_wait itself failed, Run is in its loop and every
\* worker thread is in its own, whatever failed on a connection.
C15_AsStated ==
    rpc \notin {"fatal", "gone"} =>
        /\ rpc \in {"wait", "loop", "close"}
        /\ \A w \in 1..num : wpc[w] \notin {"relay", "exited", "killed"}

\* This step is Run handling an event of the listening socket without taking
\* a connection from the backlog: its accept returned -1.
AcceptFailed ==
    /\ rpc = "loop"
    /\ ~Head(events).hup
    /\ Head(events).fd = ServerFd
    /\ events' # events
    /\ backlog' = backlog

C17_WaitFailureFatal ==
    [][err' = "EpollWait" =>
          /\ rpc' \in {"fatal", "gone", "killed"}
          /\ events' = events
          /\ rcur' = rcur
          /\ \A i \in DOMAIN tasks_' :
                \/ tasks_'[i] = StopTask
                \/ \E j \in DOMAIN tasks_ : tasks_[j] = tasks_'[i]]_vars

\* epoll_wait failed in a server that had accepted a connection and called
\* its OnNew, and the Error has unwound through ~Server while a task was
\* still waiting in the queue.
C17_Witness ==
    /\ err = "EpollWait"
    /\ rpc = "gone"
    /\ cb["OnNew"][1] > 0
    /\ \E i \in DOMAIN tasks_ : tasks_[i].kind = "HandleRead"

\* C18: when a step of the set-up has failed, the Error of that step's kind
\* has left the constructor or Run (an invalid max_events is reported as a
\* failed epoll creation, a failed socket option as a failed socket
\* creation), and the event loop was never entered: Run is not at epoll_wait
\* nor at an event, no batch was returned, no connection has got a
\* descriptor, nothing is registered, no callback was called and no task
\* other than the pool's stop task is queued or held by a worker.
C18_SetupFailureFatal ==
    failed # "none" =>
        /\ err = (CASE failed \in {"max_events", "epoll_create1"} -> "EpollCreation"
                    [] failed \in {"socket", "setsockopt"} -> "SocketCreation"
                    [] failed = "bind" -> "SocketBinding"
                    [] failed = "listen" -> "SocketListening"
                    [] failed = "epoll_ctl" -> "EpollAdd")
        /\ rpc \in {"fatal", "gone"}
        /\ events = <<>>
        /\ rcur = [fd |-> 0, n |-> 0, conn |-> 0]
        /\ \A c \in Conns : life[c] = "none"
        /\ \A fd \in FDs : fdtab[fd] = 0
        /\ interest = {}
        /\ \A k \in CbKinds : \A a \in Addrs : cb[k][a] = 0
        /\ \A i \in DOMAIN tasks_ : tasks_[i] = StopTask
        /\ \A w \in Workers : wcur[w] \in {NoTask, StopTask}

\* Registering the listening descriptor failed with a client already waiting
\* in the backlog; the Error has unwound and the pool has stopped.
C18_Witness ==
    /\ failed = "epoll_ctl"
    /\ rpc = "gone"
    /\ backlog # <<>>
    /\ \A w \in 1..num : wpc[w] = "exited"

\* C19: single-flight per connection is not enforced: a worker at the top of
\* its loop takes the front task of a queue that is not empty whatever the
\* other workers are running, a task on the same descriptor included.
C19_NoSingleFlight ==
    \A w \in Workers :
        (wpc[w] = "lock" /\ tasks_ # <<>>) => ENABLED WorkerDequeue(w)

\* Two workers are at the same time inside HandleRead tasks of the same
\* connection, on the same descriptor.
C19_Witness ==
    \E w \in Workers : \E v \in Workers \ {w} :
        /\ InTask(w)
        /\ InTask(v)
        /\ wcur[w].kind = "HandleRead"
        /\ wcur[v].kind = "HandleRead"
        /\ wcur[w].fd = wcur[v].fd
        /\ wcur[w].conn = wcur[v].conn
        /\ wcur[w].conn # 0

\* Every client that connected has disconnected, every connection was
\* accepted, nothing is queued or running, Run is at epoll_wait, and the only
\* events epoll_wait can still return are ones Run skips.
Settled ==
    /\ \E c \in Conns : peer[c] # "none"
    /\ \A c \in Conns : peer[c] # "open"
    /\ backlog = <<>>
    /\ Quiet
    /\ \A e \in ReadyEvents : e.hup

\* C20: once all clients have disconnected and all queued tasks have run, no
\* connection descriptor is open, however the disconnect was reported.
C20_AsStated == Settled => \A fd \in FDs : fdtab[fd] = 0

\* This step is worker w's write of its out_buf returning success.
Wrote(w) ==
    /\ wpc[w] = "write"
    /\ wloc[w].out
    /\ wpc'[w] \in {"lock", "kclose"}

\* OnNew has produced a greeting for connection c that is not written yet.
GreetingUnwritten(c) ==
    \E v \in Workers :
        /\ wcur[v].kind \in {"HandleNewConnection", "HandleNewConnection_v1"}
        /\ wcur[v].conn = c
        /\ wpc[v] = "write"
        /\ wloc[v].out

\* C21: the bytes OnNew produced for a connection are written to it before
\* any bytes an OnRead produced for it: no task writes its OnRead response
\* while the greeting of the same connection waits to be written.
C21_AsStated ==
    [][\A w \in Workers :
          (Wrote(w) /\ wcur[w].kind \in {"HandleRead", "HandleConnectionUpdate"})
              => ~GreetingUnwritten(wcur[w].conn)]_vars

\* This step ends a task of worker w whose OnNew or OnRead returned
\* keep_alive = true and whose write did not fail.
KeptAlive(w) ==
    /\ TaskEnds(w)
    /\ did[w] \cap {"OnNew", "OnRead"} # {}
    /\ wloc[w].keep
    /\ "wfail" \notin did[w]

\* C26: a task whose callback returned keep_alive = true and whose write did
\* not fail leaves the connection as it was: it has issued no close, it ends
\* without touching the descriptor table or the epoll set, and it delivers
\* no OnClose and no OnError.
C26_KeepAliveFrame ==
    [][\A w \in Workers :
          KeptAlive(w) =>
              /\ "close" \notin did[w]
              /\ fdtab' = fdtab
              /\ interest' = interest
              /\ nclose' = nclose
              /\ cb' = cb]_vars

\* Connection 1 has had an OnRead, its task has returned, and it is still
\* open and registered with no close issued and no terminal callback.
C26_Witness ==
    /\ cb["OnRead"][1] > 0
    /\ Quiet
    /\ fdtab[1] = 1
    /\ 1 \in interest
    /\ nclose[1] = 0
    /\ Terminals(1) = 0

\* C27: the terminal notification is the last callback of a connection: a
\* worker calls OnNew or OnRead in a task made for a connection only while
\* no OnClose and no OnError has been delivered for that connection.
C27_AsStated ==
    [][\A w \in Workers :
          (/\ wpc'[w] # wpc[w]
           /\ \/ cb'["OnNew"] # cb["OnNew"]
              \/ cb'["OnRead"] # cb["OnRead"])
              => Terminals(wcur[w].conn) = 0]_vars

\* The step worker w is about to take in its task is a read, a write, an
\* epoll_ctl(DEL) or a close on the descriptor number the task holds.
Operates(w) ==
    /\ InTask(w)
    /\ wcur[w].fd # 0
    /\ \/ wpc[w] \in {"wclose", "kclose", "del", "close"}
       \/ wpc[w] = "write" /\ wloc[w].out
       \/ wpc[w] = "call" /\ wcur[w].kind = "HandleConnectionUpdate"

\* C28: a task that holds a descriptor number only ever operates on the
\* connection it was enqueued for: when it reads, writes or closes, the
\* number is not open on another connection.
C28_AsStated ==
    [][\A w \in Workers :
          (Operates(w) /\ wpc'[w] # wpc[w])
              => fdtab[wcur[w].fd] \in {0, wcur[w].conn}]_vars

\* ------------------------------------ src/app/handler.h: EchoHandler::OnRead
Bytes == 0..MaxByte

\* The buffers Run hands to OnRead (src/include/tcp/server.h lines 197-198):
\* _buf_size bytes, zeroed, of which read has overwritten the first n >= 1
\* with whatever the client sent (n = _buf_size gives every buffer).
InBufs == [1..BufSize -> Bytes]

\* What may lie in memory behind the buffer.
Beyond == UNION {[1..k -> Bytes] : k \in 0..MaxOverread}

RECURSIVE strlen(_)
\* std::strlen: the number of bytes before the first zero byte of mem.
strlen(mem) ==
    IF mem = <<>> \/ Head(mem) = 0 THEN 0 ELSE 1 + strlen(Tail(mem))

\* in_buf holds a zero byte.
Terminated(b) == \E i \in DOMAIN b : b[i] = 0

\* Lines 39-45 for a buffer that holds a zero byte: len = strlen(in_buf),
\* out_buf = the first len bytes, return true.
EchoOnRead ==
    /\ echo.pc = "call"
    /\ Terminated(echo.in_buf)
    /\ echo' = [echo EXCEPT !.pc = "done",
                            !.out_buf = SubSeq(echo.in_buf, 1, strlen(echo.in_buf)),
                            !.keep = TRUE]
    /\ UNCHANGED <<num, mx, tasks_, wpc, wcur, ownerVars, srvVars>>

\* Lines 39-45 for a buffer with no zero byte: strlen reads past the end of
\* the vector (undefined behaviour) and stops at the first zero byte that
\* memory happens to hold, and std::copy reads as far.
EchoOverread ==
    /\ echo.pc = "call"
    /\ ~Terminated(echo.in_buf)
    /\ \E heap \in Beyond :
          echo' = [echo EXCEPT !.pc = "done",
                               !.out_buf = SubSeq(echo.in_buf \o heap, 1,
                                                  strlen(echo.in_buf \o heap)),
                               !.keep = TRUE]
    /\ UNCHANGED <<num, mx, tasks_, wpc, wcur, ownerVars, srvVars>>

\* The same read past the end reaches memory that is not mapped.
EchoCrash ==
    /\ echo.pc = "call"
    /\ ~Terminated(echo.in_buf)
    /\ echo' = [echo EXCEPT !.pc = "crashed"]
    /\ UNCHANGED <<num, mx, tasks_, wpc, wcur, ownerVars, srvVars>>

\* No pool and no server: the other parts of the model at rest.
NoServer ==
    /\ num = 0
    /\ tasks_ = <<>>
    /\ wpc = [w \in Workers |-> "absent"]
    /\ wcur = [w \in Workers |-> NoTask]
    /\ opc = "idle"
    /\ pushed = 0
    /\ joined = 0
    /\ ran = [i \in TaskIds |-> 0]
    /\ wloc = [w \in Workers |-> NoLocals]
    /\ did = [w \in Workers |-> {}]
    /\ backlog = <<>>
    /\ peer = [c \in Conns |-> "none"]
    /\ nsent = [c \in Conns |-> 0]
    /\ rcvq = [c \in Conns |-> 0]
    /\ fdtab = [fd \in FDs |-> 0]
    /\ interest = {}
    /\ rpc = "none"
    /\ events = <<>>
    /\ rcur = [fd |-> 0, n |-> 0, conn |-> 0]
    /\ err = "none"
    /\ failed = "none"
    /\ cb = [k \in CbKinds |-> [a \in Addrs |-> 0]]
    /\ life = [c \in Conns |-> "none"]
    /\ nclose = [c \in Conns |-> 0]
    /\ uac = {}

\* OnRead is about to be called with any buffer Run can hand it.
InitEcho ==
    /\ NoServer
    /\ mx = NoMx
    /\ \E b \in InBufs :
          echo = [pc |-> "call", in_buf |-> b, out_buf |-> <<>>, keep |-> FALSE]

NextEcho ==
    \/ EchoOnRead
    \/ EchoOverread
    \/ EchoCrash

SpecEcho == InitEcho /\ [][NextEcho]_vars

\* The bytes of b before its first zero byte; all of b when it has none.
BeforeTerminator(b) ==
    IF \E i \in DOMAIN b : b[i] = 0
    THEN SubSeq(b, 1, (CHOOSE i \in DOMAIN b :
                          b[i] = 0 /\ \A j \in 1..(i - 1) : b[j] # 0) - 1)
    ELSE b

\* C22: for every buffer handed to the echo handler's OnRead the call
\* returns, the response is the input's bytes before the first zero byte,
\* keep_alive is true, and the response is no longer than the buffer, also
\* when the data fills the buffer and leaves no zero byte.
C22_AsStated ==
    /\ echo.pc # "crashed"
    /\ echo.pc = "done" =>
          /\ echo.out_buf = BeforeTerminator(echo.in_buf)
          /\ echo.keep
          /\ Len(echo.out_buf) <= BufSize

\* ----------------- thread_pool.h: task_mutex_ and the accesses to tasks_
\* One worker thread, one thread that calls Push and one that calls Stop,
\* with every lock, unlock and access to tasks_ a step of its own.  An
\* access is a step that starts it and a step that completes it; a thread is
\* touching the queue in between.
\* Pushes the pushing thread makes.
MaxPushes == 2

\* The threads, and the field of mx that holds the position of each.
MxThreads == {"wk", "pu", "st"}

\* Thread t is in the middle of an access to tasks_.
Touching(t) == mx[t] \in {"front", "emplacing", "swapping"}

\* std::unique_lock / std::lock_guard on task_mutex_ (lines 28, 69, 79):
\* thread t, at position from, takes the free mutex.
MxLock(t, from, to) ==
    /\ mx[t] = from
    /\ mx.holder = "none"
    /\ mx' = [mx EXCEPT !.holder = t, ![t] = to]

\* The end of the scope of the lock (lines 32, 71, 82).
MxUnlock(t, from, to) ==
    /\ mx[t] = from
    /\ mx.holder = t
    /\ mx' = [mx EXCEPT !.holder = "none", ![t] = to]

\* tasks_.emplace(...) (lines 70, 80): thread t starts, then completes, the
\* insertion of item.
MxEmplaceBegin(t, from) ==
    /\ mx[t] = from
    /\ mx' = [mx EXCEPT ![t] = "emplacing"]

MxEmplaceEnd(t, item, to) ==
    /\ mx[t] = "emplacing"
    /\ mx' = [mx EXCEPT !.q = Append(@, item), ![t] = to]

\* The worker, lines 28-29: lock, and wait while the queue is empty (wait
\* releases the mutex and takes it again when it returns).
WkLock == MxLock("wk", "top", "locked")

WkWait ==
    /\ mx.wk = "locked"
    /\ mx.q = <<>>
    /\ mx' = [mx EXCEPT !.holder = "none", !.wk = "waiting"]

WkWake == MxLock("wk", "waiting", "locked")

\* The worker, lines 30-31: tasks_.front() is moved from, then pop().
WkFront ==
    /\ mx.wk = "locked"
    /\ mx.q # <<>>
    /\ mx' = [mx EXCEPT !.wk = "front"]

WkPop ==
    /\ mx.wk = "front"
    /\ mx' = [mx EXCEPT !.cur = IF mx.q = <<>> THEN "none" ELSE Head(mx.q),
                        !.q = IF mx.q = <<>> THEN <<>> ELSE Tail(mx.q),
                        !.wk = "popped"]

\* The worker, lines 32-37: unlock; an empty task sends it to push_stop_task,
\* any other is run.
WkUnlock ==
    MxUnlock("wk", "popped", IF mx.cur = "stop" THEN "relay" ELSE "run")

WkRun ==
    /\ mx.wk = "run"
    /\ mx' = [mx EXCEPT !.wk = "top", !.cur = "none"]

\* The worker, lines 34-35: push_stop_task (lines 79-81), then return.
WkRelayLock == MxLock("wk", "relay", "relaylocked")

WkRelayBegin == MxEmplaceBegin("wk", "relaylocked")

WkRelayEnd == MxEmplaceEnd("wk", "stop", "relayed")

WkExit == MxUnlock("wk", "relayed", "exited")

\* Push, lines 68-72: lock, emplace, unlock, notify_one.
PuLock ==
    /\ mx.n < MaxPushes
    /\ MxLock("pu", "idle", "locked")

PuBegin == MxEmplaceBegin("pu", "locked")

PuEnd == MxEmplaceEnd("pu", "task", "emplaced")

PuUnlock == MxUnlock("pu", "emplaced", "notify")

PuNotify ==
    /\ mx.pu = "notify"
    /\ mx' = [mx EXCEPT !.pu = "idle", !.n = @ + 1]

\* Stop, line 48: push_stop_task (lines 79-82).
StLock == MxLock("st", "idle", "locked")

StBegin == MxEmplaceBegin("st", "locked")

StEnd == MxEmplaceEnd("st", "stop", "emplaced")

StUnlock == MxUnlock("st", "emplaced", "join")

\* Stop, lines 49-53: join returns once the worker has returned.
StJoin ==
    /\ mx.st = "join"
    /\ mx.wk = "exited"
    /\ mx' = [mx EXCEPT !.st = "joined"]

\* Stop, lines 56-57: std::swap(tasks_, empty), with no lock taken.
StSwapBegin ==
    /\ mx.st = "joined"
    /\ mx' = [mx EXCEPT !.st = "swapping"]

\* Stop, lines 57-58: the swap completes and Stop returns.
StSwapEnd ==
    /\ mx.st = "swapping"
    /\ mx' = [mx EXCEPT !.q = <<>>, !.st = "stopped"]

InitMutex ==
    /\ NoServer
    /\ echo = NoEcho
    /\ mx = [holder |-> "none", wk |-> "top", cur |-> "none", pu |-> "idle",
             st |-> "idle", q |-> <<>>, n |-> 0]

NextMutex ==
    /\ \/ WkLock \/ WkWait \/ WkWake \/ WkFront \/ WkPop \/ WkUnlock \/ WkRun
       \/ WkRelayLock \/ WkRelayBegin \/ WkRelayEnd \/ WkExit
       \/ PuLock \/ PuBegin \/ PuEnd \/ PuUnlock \/ PuNotify
       \/ StLock \/ StBegin \/ StEnd \/ StUnlock \/ StJoin
       \/ StSwapBegin \/ StSwapEnd
    /\ UNCHANGED <<num, echo, tasks_, wpc, wcur, ownerVars, srvVars>>

SpecMutex == InitMutex /\ [][NextMutex]_vars

\* C29: every access to the queue is made by the holder of the mutex, so no
\* two threads touch the queue at the same time, a Push that runs while Stop
\* runs included.
C29_AsStated ==
    /\ \A t \in MxThreads : Touching(t) => mx.holder = t
    /\ \A t \in MxThreads : \A u \in MxThreads \ {t} :
          ~(Touching(t) /\ Touching(u))

\* ------------------------------------------------------------ bare pool
\* ThreadPool(num): num threads, each at the top of its loop; the queue empty.
InitPool ==
    /\ num \in 0..MaxThreads
    /\ tasks_ = <<>>
    /\ wpc = [w \in Workers |-> IF w <= num THEN "lock" ELSE "absent"]
    /\ wcur = [w \in Workers |-> NoTask]
    /\ opc = "idle"
    /\ pushed = 0
    /\ joined = 0
    /\ ran = [i \in TaskIds |-> 0]
    /\ InitNet

NextPool ==
    \/ \E w \in Workers : WorkerStep(w)
    \/ \E w \in Workers : WorkerRunJob(w)
    \/ OwnerPush
    \/ OwnerNotify
    \/ StopPush
    \/ StopJoin
    \/ StopDrain

SpecPool == InitPool /\ [][NextPool]_vars

\* The scheduler is fair to every thread that can take a step: a worker that
\* can block, dequeue, relay or run its task eventually does, and so does a
\* Stop whose join or drain can proceed.  A blocked worker is owed nothing
\* until it is notified, and the owner is free never to push or stop.
FairPool ==
    /\ \A w \in Workers :
          WF_vars(WorkerWait(w) \/ WorkerDequeue(w) \/ WorkerRelay(w)
                  \/ WorkerRunJob(w))
    /\ WF_vars(OwnerNotify)
    /\ WF_vars(StopJoin)
    /\ WF_vars(StopDrain)

SpecPoolFair == SpecPool /\ FairPool

\* ------------------------------------------------- claims on the bare pool
\* Stop has returned.
Stopped == opc = "stopped"

\* C5 as stated: in a pool of N workers that was given M > N tasks, no task
\* runs twice, and once Stop has returned every task pushed before Stop was
\* invoked (here: every pushed task) has run exactly once.
C5_AsStated ==
    /\ \A i \in TaskIds : ran[i] <= 1
    /\ (Stopped /\ pushed > num) => \A i \in 1..pushed : ran[i] = 1

\* C5 amended: the same for a pool of at least one worker.  (With no worker
\* nothing dequeues, and the swap in Stop discards every task.)
C5_ExactlyOnce ==
    /\ \A i \in TaskIds : ran[i] <= 1
    /\ (Stopped /\ num >= 1) => \A i \in 1..pushed : ran[i] = 1

C5_Witness ==
    /\ Stopped
    /\ num >= 1
    /\ pushed > num
    /\ \A i \in 1..pushed : ran[i] = 1

\* C6: when Stop returns every worker thread has terminated, no task is
\* executing and the queue is empty.
C6_StopPostcondition ==
    Stopped =>
        /\ \A w \in Workers : wpc[w] \in {"absent", "exited"}
        /\ \A w \in Workers : wcur[w] = NoTask
        /\ tasks_ = <<>>

C6_Witness ==
    /\ Stopped
    /\ num = MaxThreads
    /\ pushed >= 1

C24_EveryTaskRuns ==
    \A i \in TaskIds :
        (pushed >= i /\ num >= 1) ~> (ran[i] >= 1 \/ opc \in {"join", "stopped"})

\* Stop was not invoked, every task that could be pushed has run, and every
\* worker is back in task_cond_.wait.
C24_Witness ==
    /\ opc = "idle"
    /\ num >= 1
    /\ pushed = MaxTasks
    /\ \A i \in TaskIds : ran[i] = 1
    /\ \A w \in 1..num : wpc[w] = "blocked"

\* C25: the queue is first in, first out: a worker that dequeues takes the
\* task that was enqueued first of those queued.  Tasks are numbered in the
\* order of their Push, and every one of them is enqueued before Stop's empty
\* task: whatever job is left in the queue after a dequeue has a higher
\* number than the job taken, and no job is left when an empty task is taken.
C25_Fifo ==
    [][\A w \in Workers :
          (wpc[w] = "lock" /\ wpc'[w] \in {"call", "relay"}) =>
              \A k \in DOMAIN tasks_' :
                  tasks_'[k].kind = "job" =>
                      /\ wcur'[w].kind = "job"
                      /\ wcur'[w].id < tasks_'[k].id]_vars

\* A worker holds the second task while the first has been run and the third
\* waits in the queue.
C25_Witness ==
    /\ \E w \in Workers : wcur[w] = Job(2) /\ wpc[w] = "call"
    /\ ran[1] = 1
    /\ tasks_ = <<Job(3)>>

TypeOKPool ==
    /\ num \in 0..MaxThreads
    /\ wpc \in [Workers -> {"absent", "lock", "blocked", "relay", "call", "exited"}]
    /\ opc \in {"idle", "notify", "join", "stopped"}
    /\ pushed \in 0..MaxTasks
    /\ joined \in 0..MaxThreads
====
